---- MODULE Spec2Model ----
(***************************************************************************)
(* Model of the posting strategy chain (auto_linkedin_poster.py, main.py)  *)
(* and of the article deduplication store (enhanced_news_fetcher.py).      *)
(*                                                                         *)
(* Spec      : LinkedInBot.post_to_linkedin driving                         *)
(*             AutoLinkedInPoster.auto_post, one step per external          *)
(*             interaction (publish request, prompt, browser, fallback).    *)
(* SpecDedup : EnhancedNewsFetcher's used_articles.json store and the       *)
(*             fetch / select operations over it.                           *)
(* SpecCaption : CaptionGenerator._format_linkedin_post and the hand-over   *)
(*             of the caption to the strategies.                            *)
(* SpecApi   : the entry points and APILinkedInBot.run_automation           *)
(*             (api_linkedin_bot.py) with its linkedin_post_*.txt files.    *)
(* SpecId    : EnhancedNewsFetcher.generate_article_id on its own.          *)
(* SpecConc  : two overlapping invocations of select_fresh_article on one   *)
(*             store file.                                                  *)
(* SpecImg   : NewsImageGenerator.generate_image_huggingface, one step per  *)
(*             request.                                                     *)
(* SpecDirect : the public methods of one AutoLinkedInPoster called         *)
(*             directly (cached identity).                                  *)
(* SpecRelay : test_telegram_automation.main (Telegram relay).              *)
(***************************************************************************)
EXTENDS Integers, Sequences, FiniteSets, TLC

VARIABLES
    \* ---- posting chain -------------------------------------------------
    pc,           \* position of the run inside post_to_linkedin / auto_post
    token,        \* AutoLinkedInPoster.access_token is set (Config)
    user_id,      \* AutoLinkedInPoster._user_id
    user_urn,     \* AutoLinkedInPoster._user_urn
    invoked,      \* per strategy: number of invocations in this invocation of auto_post
    reported,     \* per strategy: what the strategy returned ("none" before it ran)
    status,       \* per strategy: HTTP status of its publish response (0: none / raised)
    sent,         \* publish requests sent to the platform in this invocation
    accepted,     \* publish requests the platform accepted in this invocation
    lookups,      \* profile-lookup requests sent in this invocation
    lookupLog,    \* the profile-lookup calls of this invocation: [endpoint, kind]
    waited,       \* longest time a call of this invocation can have blocked (s)
    browser,      \* how the browser strategy ended ("none" before it ran)
    author,       \* author identity of the last UGC v1 request
    consent,      \* what the operator prompt produced ("none" before it ran)
    chain,        \* how auto_post ended: "none", "True", "False", "raised"
    records,      \* manual-fallback records written in this run
    result,       \* what post_to_linkedin returned: "none", "True", "False"
    runs,         \* number of runs started
    \* ---- deduplication store -------------------------------------------
    file,         \* content of used_articles.json
    now,          \* datetime.now(), in days
    ret,          \* value returned by the last store operation
    last,         \* record of the last store operation
    markedAt,     \* per fingerprint: time of its latest persisted mark
    selSet,       \* fingerprints select_fresh_article marked since the last reset
    \* ---- caption ---------------------------------------------------------
    caption,      \* the caption CaptionGenerator.create_linkedin_post returned
    handed,       \* the texts handed to the posting strategies, in order
    \* ---- entry points and APILinkedInBot --------------------------------
    entry,        \* the entry point that runs ("none" before the first)
    apc,          \* position of the run inside run_automation / main
    clock,        \* datetime.now(), in ticks
    content,      \* the content generate_content_with_api returned
    disk,         \* linkedin_post_*.txt files: file name -> content
    savedLog,     \* every record run_automation wrote: [name, content]
    console,      \* what the run printed
    success,      \* what the run returned: "none", "True", "False"
    final,        \* final state of the run: "none", "posted", "saved", "failed"
    exit_code,    \* exit code of the process (-1: not exited)
    apiRuns,      \* number of processes started
    fetched,      \* what fetch_tech_news returned and the sources it consulted
    image_path,   \* what generate_image_with_api returned: a path or None
    posted,       \* the call of post_to_linkedin_api: its requests and what it returned
    \* ---- article fingerprints -------------------------------------------
    idLast,       \* the last call of generate_article_id: article, context, id
    idPrev,       \* the call before it
    \* ---- overlapping invocations of select_fresh_article -------------------
    cfile,        \* used_articles.json shared by the overlapping invocations
    cpc,          \* per invocation: its position in select_fresh_article
    cpick,        \* per invocation: the id of the article it selected
    cread,        \* per invocation: what save_used_article read from the file
    creadAt,      \* per invocation: the writes completed when it read
    cwrote,       \* the invocations whose write completed, in order
    \* ---- generate_image_huggingface ----------------------------------------
    ipc,          \* position inside generate_image_huggingface: "idle", "request", "done"
    hf_token,     \* HUGGINGFACE_TOKEN is set for this call
    ilog,         \* the responses to the requests of this call, in order
    islept,       \* seconds slept between the attempts of this call
    iwritten,     \* the image file was written by this call
    iresult,      \* what the call produced: "pending", "path", "None", "raised"
    \* ---- direct calls on AutoLinkedInPoster --------------------------------
    calls,        \* the methods called directly on one AutoLinkedInPoster, in order
    \* ---- Telegram relay ----------------------------------------------------
    tpc,          \* position inside test_telegram_automation.main
    tlog,         \* the requests sent to Telegram, in order: [req, outcome]
    tgen,         \* how news and image generation ended in send_linkedin_content
    ttext,        \* the text put into the message: "article" or "builtin"
    image_info,   \* the image handed to the send: "path" or None
    treport,      \* what main printed at its end
    truns,        \* runs of main started
    tdelivered    \* content messages Telegram acknowledged, over all runs

chainVars == <<pc, token, user_id, user_urn, invoked, reported, status, sent,
               accepted, lookups, lookupLog, waited, browser, author, consent,
               chain, records, result, runs>>
dedupVars == <<file, now, ret, last, markedAt, selSet>>
captionVars == <<caption, handed>>
apiVars == <<entry, apc, clock, content, disk, savedLog, console, success,
             final, exit_code, apiRuns, fetched, image_path, posted>>
idVars == <<idLast, idPrev>>
concVars == <<cfile, cpc, cpick, cread, creadAt, cwrote>>
imgVars == <<ipc, hf_token, ilog, islept, iwritten, iresult>>
directVars == <<calls>>
relayVars == <<tpc, tlog, tgen, ttext, image_info, treport, truns, tdelivered>>
vars == <<chainVars, dedupVars, captionVars, apiVars, idVars, concVars, imgVars, directVars, relayVars>>

\* What the steps of one component leave alone: the other components.
notChain == <<dedupVars, captionVars, apiVars, idVars, concVars, imgVars, directVars, relayVars>>
notDedup == <<chainVars, captionVars, apiVars, idVars, concVars, imgVars, directVars, relayVars>>
notCaption == <<chainVars, dedupVars, apiVars, idVars, concVars, imgVars, directVars, relayVars>>
notApi == <<chainVars, dedupVars, captionVars, idVars, concVars, imgVars, directVars, relayVars>>
notId == <<chainVars, dedupVars, captionVars, apiVars, concVars, imgVars, directVars, relayVars>>
notConc == <<chainVars, dedupVars, captionVars, apiVars, idVars, imgVars, directVars, relayVars>>
notImg == <<chainVars, dedupVars, captionVars, apiVars, idVars, concVars, directVars, relayVars>>
notDirect == <<chainVars, dedupVars, captionVars, apiVars, idVars, concVars, imgVars, relayVars>>
notRelay == <<chainVars, dedupVars, captionVars, apiVars, idVars, concVars, imgVars, directVars>>
notChainOrDirect == <<dedupVars, captionVars, apiVars, idVars, concVars, imgVars, relayVars>>

None == "None"

(***************************************************************************)
(* Bounds of the model.                                                    *)
(***************************************************************************)
MaxRuns == 2
MaxTime == 8
MaxFeed == 1
NumTopics == 1

(***************************************************************************)
(* Posting chain: AutoLinkedInPoster and its caller.                       *)
(***************************************************************************)
Strategies == 1..4

B(b) == IF b THEN "True" ELSE "False"

\* A publish response: an HTTP status with a body that parses as JSON or not;
\* status 0 stands for a request that raised (timeout, connection error).
RaisedResponse == [status |-> 0, body |-> "none"]
PublishResponses ==
    [status : {200, 201, 401, 403, 500}, body : {"json", "garbage"}]
        \cup {RaisedResponse}

\* The timeout arguments of the calls, in seconds: requests.get in
\* get_user_info, requests.post in the three API strategies, and the
\* WebDriverWait for the operator's login.
LookupTimeout == 10
PublishTimeout == 15
LoginWait == 300
Max(a, b) == IF a >= b THEN a ELSE b

\* A share strategy that would take a request that raised for a success.
create_simple_share_trusting_raise(resp) ==
    IF resp.status \in {0, 200, 201}
    THEN resp.body # "garbage"
    ELSE FALSE

\* The platform accepted (published) the request.
Accepts(resp) == resp.status \in {200, 201}

\* create_simple_share: response.json() is evaluated after the status test and
\* inside the try, so a 200/201 with an unparsable body ends in the except.
create_simple_share_result(resp) ==
    IF resp.status \in {200, 201}
    THEN resp.body = "json"
    ELSE FALSE

create_ugc_post_v1_result(resp) ==
    IF resp.status \in {200, 201}
    THEN resp.body = "json"
    ELSE FALSE

create_ugc_post_v2_result(resp) ==
    IF resp.status \in {200, 201}
    THEN resp.body = "json"
    ELSE FALSE

\* Identity resolution.  A lookup response is a 200 with an 'id', a 200
\* without one, a 200 whose body does not parse, another status, or a raise.
UserIds == {"A", "B"}
LookupResponses ==
    [kind : {"id"}, id : UserIds]
        \cup [kind : {"noid", "badjson", "fail", "raised"}, id : {None}]
Endpoints == 1..3
endpoints_to_try == <<"/people/~", "/people/~:(id,firstName,lastName)", "/me">>

\* f"urn:li:person:{id}"
Urn(id) ==
    CASE id = "A" -> "urn:li:person:A"
      [] id = "B" -> "urn:li:person:B"
      [] OTHER -> "urn:li:person:~"
PlaceholderUrn == "urn:li:person:~"

\* A lookup that would go on to the next endpoint after a 200 without 'id'.
RECURSIVE get_user_info_until_id(_, _, _, _)
get_user_info_until_id(i, id, urn, rs) ==
    IF i > 3
    THEN [id |-> id, urn |-> urn, calls |-> 3]
    ELSE IF rs[i].kind = "id"
         THEN [id |-> rs[i].id, urn |-> Urn(rs[i].id), calls |-> i]
         ELSE get_user_info_until_id(i + 1, IF rs[i].kind = "noid" THEN None ELSE id,
                                     urn, rs)

\* get_user_info from endpoint i on: [id, urn, calls].
RECURSIVE get_user_info_from(_, _, _, _)
get_user_info_from(i, id, urn, rs) ==
    IF i > 3
    THEN [id |-> id, urn |-> urn, calls |-> 3]
    ELSE IF rs[i].kind = "id"
         THEN [id |-> rs[i].id, urn |-> Urn(rs[i].id), calls |-> i]
         ELSE IF rs[i].kind = "noid"
              THEN [id |-> None, urn |-> urn, calls |-> i]
              ELSE get_user_info_from(i + 1, id, urn, rs)

get_user_info(id, urn, rs) == get_user_info_from(1, id, urn, rs)

\* A chain that would go on to strategy 2 although strategy 1 succeeded.
auto_post_next_ignoring_share(k, ok) ==
    IF ok /\ k # 1
    THEN [pc |-> "done", chain |-> "True"]
    ELSE [pc |-> CASE k = 1 -> "s2" [] k = 2 -> "s3" [] k = 3 -> "prompt"
                   [] OTHER -> "fallback",
          chain |-> IF k = 4 THEN "False" ELSE "none"]

\* auto_post's control flow after strategy k returned ok: [pc, chain].
auto_post_next(k, ok) ==
    IF ok
    THEN [pc |-> "done", chain |-> "True"]
    ELSE [pc |-> CASE k = 1 -> "s2" [] k = 2 -> "s3" [] k = 3 -> "prompt"
                   [] OTHER -> "fallback",
          chain |-> IF k = 4 THEN "False" ELSE "none"]

\* post_to_linkedin's return value when auto_post returned True.
ResultOf(nx) == IF nx.chain = "True" THEN "True" ELSE "none"

\* The operator's answer as auto_post compares it: input().lower().strip().
Answers == {"y", " Y ", "n", "yes", "EOF"}
Normalised(a) == IF a \in {"y", " Y "} THEN "y" ELSE a

BrowserOutcomes ==
    {"import_error", "setup_error", "login_timeout", "no_start_button",
     "no_editor", "no_text_area", "no_post_button", "posted", "error_after_click"}
Clicked(o) == o \in {"posted", "error_after_click"}
\* The outcomes in which the wait for the operator's login was entered.
ReachedLogin(o) == o \notin {"import_error", "setup_error"}
post_with_browser_automation_result(o) == o = "posted"

\* An auto_post that would start its strategies without testing the token.
auto_post_entry_unguarded(access_token) == [pc |-> "s1", chain |-> "none"]

\* auto_post's first test: without a token it returns False at once and the
\* caller goes on to its fallback; with one it starts strategy 1.
auto_post_entry(access_token) ==
    IF access_token
    THEN [pc |-> "s1", chain |-> "none"]
    ELSE [pc |-> "fallback", chain |-> "False"]

ChainInit ==
    /\ pc = "idle"
    /\ token \in BOOLEAN
    /\ user_id = None
    /\ user_urn = None
    /\ invoked = [k \in Strategies |-> 0]
    /\ reported = [k \in Strategies |-> "none"]
    /\ status = [k \in Strategies |-> 0]
    /\ sent = 0
    /\ accepted = 0
    /\ lookups = 0
    /\ lookupLog = << >>
    /\ waited = 0
    /\ browser = "none"
    /\ author = None
    /\ consent = "none"
    /\ chain = "none"
    /\ records = 0
    /\ result = "none"
    /\ runs = 0

\* LinkedInBot.post_to_linkedin is called; with auto_post it enters
\* AutoLinkedInPoster.auto_post, which returns False at once without a token.
post_to_linkedin ==
    /\ pc \in {"idle", "done"}
    /\ runs < MaxRuns
    /\ runs' = runs + 1
    /\ invoked' = [k \in Strategies |-> 0]
    /\ reported' = [k \in Strategies |-> "none"]
    /\ status' = [k \in Strategies |-> 0]
    /\ sent' = 0
    /\ accepted' = 0
    /\ lookups' = 0
    /\ lookupLog' = << >>
    /\ waited' = 0
    /\ browser' = "none"
    /\ author' = None
    /\ consent' = "none"
    /\ records' = 0
    /\ result' = "none"
    /\ \E auto \in BOOLEAN :
          IF auto
          THEN pc' = auto_post_entry(token).pc /\ chain' = auto_post_entry(token).chain
          ELSE pc' = "fallback" /\ chain' = "none"
    /\ UNCHANGED <<token, user_id, user_urn>>
    /\ UNCHANGED notChain

\* Strategy 1.
create_simple_share ==
    /\ pc = "s1"
    /\ \E resp \in PublishResponses :
          LET ok == create_simple_share_result(resp)
              nx == auto_post_next(1, ok)
          IN /\ invoked' = [invoked EXCEPT ![1] = @ + 1]
             /\ reported' = [reported EXCEPT ![1] = B(ok)]
             /\ status' = [status EXCEPT ![1] = resp.status]
             /\ sent' = sent + 1
             /\ accepted' = accepted + (IF Accepts(resp) THEN 1 ELSE 0)
             /\ pc' = nx.pc
             /\ chain' = nx.chain
             /\ result' = ResultOf(nx)
    /\ waited' = Max(waited, PublishTimeout)
    /\ UNCHANGED <<token, user_id, user_urn, lookups, lookupLog, browser, author,
                   consent, records, runs>>
    /\ UNCHANGED notChain

\* Strategy 2: resolves the identity when none is cached, then publishes.
create_ugc_post_v1 ==
    /\ pc = "s2"
    /\ \E rs \in [Endpoints -> LookupResponses], resp \in PublishResponses :
          LET info == IF user_urn = None
                      THEN get_user_info(user_id, user_urn, rs)
                      ELSE [id |-> user_id, urn |-> user_urn, calls |-> 0]
              ok == create_ugc_post_v1_result(resp)
              nx == auto_post_next(2, ok)
          IN /\ user_id' = info.id
             /\ user_urn' = info.urn
             /\ lookups' = lookups + info.calls
             /\ lookupLog' = lookupLog \o
                   [i \in 1..info.calls |->
                       [endpoint |-> endpoints_to_try[i], kind |-> rs[i].kind]]
             /\ author' = IF info.urn = None THEN PlaceholderUrn ELSE info.urn
             /\ invoked' = [invoked EXCEPT ![2] = @ + 1]
             /\ reported' = [reported EXCEPT ![2] = B(ok)]
             /\ status' = [status EXCEPT ![2] = resp.status]
             /\ sent' = sent + 1
             /\ accepted' = accepted + (IF Accepts(resp) THEN 1 ELSE 0)
             /\ pc' = nx.pc
             /\ chain' = nx.chain
             /\ result' = ResultOf(nx)
             /\ waited' = Max(waited, IF info.calls > 0
                                      THEN Max(LookupTimeout, PublishTimeout)
                                      ELSE PublishTimeout)
    /\ UNCHANGED <<token, browser, consent, records, runs>>
    /\ UNCHANGED notChain

\* Strategy 3.
create_ugc_post_v2 ==
    /\ pc = "s3"
    /\ \E resp \in PublishResponses :
          LET ok == create_ugc_post_v2_result(resp)
              nx == auto_post_next(3, ok)
          IN /\ invoked' = [invoked EXCEPT ![3] = @ + 1]
             /\ reported' = [reported EXCEPT ![3] = B(ok)]
             /\ status' = [status EXCEPT ![3] = resp.status]
             /\ sent' = sent + 1
             /\ accepted' = accepted + (IF Accepts(resp) THEN 1 ELSE 0)
             /\ pc' = nx.pc
             /\ chain' = nx.chain
             /\ result' = ResultOf(nx)
    /\ waited' = Max(waited, PublishTimeout)
    /\ UNCHANGED <<token, user_id, user_urn, lookups, lookupLog, browser, author,
                   consent, records, runs>>
    /\ UNCHANGED notChain

\* The consent prompt of strategy 4.  input() raises EOFError on a closed
\* standard input; auto_post has no handler around it, so the exception
\* reaches post_to_linkedin, whose except clause returns False.
operator_prompt ==
    /\ pc = "prompt"
    /\ \E a \in Answers :
          /\ consent' = a
          /\ IF a = "EOF"
             THEN pc' = "done" /\ chain' = "raised" /\ result' = "False"
             ELSE IF Normalised(a) = "y"
                  THEN pc' = "browser" /\ chain' = "none" /\ result' = "none"
                  ELSE pc' = "fallback" /\ chain' = "False" /\ result' = "none"
    /\ UNCHANGED <<token, user_id, user_urn, invoked, reported, status, sent,
                   accepted, lookups, lookupLog, waited, browser, author, records,
                   runs>>
    /\ UNCHANGED notChain

\* Strategy 4.
post_with_browser_automation ==
    /\ pc = "browser"
    /\ \E o \in BrowserOutcomes :
          LET ok == post_with_browser_automation_result(o)
              nx == auto_post_next(4, ok)
          IN /\ invoked' = [invoked EXCEPT ![4] = @ + 1]
             /\ reported' = [reported EXCEPT ![4] = B(ok)]
             /\ sent' = sent + (IF Clicked(o) THEN 1 ELSE 0)
             /\ accepted' = accepted + (IF Clicked(o) THEN 1 ELSE 0)
             /\ pc' = nx.pc
             /\ chain' = nx.chain
             /\ result' = ResultOf(nx)
             /\ browser' = o
             /\ waited' = Max(waited, IF ReachedLogin(o) THEN LoginWait ELSE 0)
    /\ UNCHANGED <<token, user_id, user_urn, status, lookups, lookupLog, author, consent,
                   records, runs>>
    /\ UNCHANGED notChain

\* The caller's manual fallback: content_manager.save_content_for_posting
\* returns a result, returns nothing, or raises (caught by post_to_linkedin).
SaveOutcomes == {"saved", "nothing", "raised"}
save_content_for_posting ==
    /\ pc = "fallback"
    /\ \E o \in SaveOutcomes :
          /\ records' = records + (IF o = "saved" THEN 1 ELSE 0)
          /\ result' = B(o = "saved")
    /\ pc' = "done"
    /\ UNCHANGED <<token, user_id, user_urn, invoked, reported, status, sent,
                   accepted, lookups, lookupLog, waited, browser, author, consent,
                   chain, runs>>
    /\ UNCHANGED notChain

ChainNext ==
    \/ post_to_linkedin
    \/ create_simple_share
    \/ create_ugc_post_v1
    \/ create_ugc_post_v2
    \/ operator_prompt
    \/ post_with_browser_automation
    \/ save_content_for_posting

(***************************************************************************)
(* Deduplication store: EnhancedNewsFetcher.                               *)
(***************************************************************************)
\* timedelta(days=7)
Retention == 7
\* num_articles_per_topic
NumArticlesPerTopic == 5

\* Candidate articles: the first two differ in title, description and link
\* but concatenate to the same content.
Articles ==
    { [title |-> <<"X">>,      description |-> <<"Y">>, link |-> "l1"],
      [title |-> <<"X", "Y">>, description |-> <<>>,    link |-> "l2"],
      [title |-> <<"Z">>,      description |-> <<>>,    link |-> "l3"] }

\* A fingerprint that would hash the link as well.
generate_article_id_with_link(article) ==
    <<"md5">> \o article.title \o article.description \o <<article.link>>

\* hashlib.md5(f"{title}{description}".encode()).hexdigest()
generate_article_id(article) ==
    <<"md5">> \o article.title \o article.description

Fingerprints == {generate_article_id(a) : a \in Articles}

WithId(a) ==
    [title |-> a.title, description |-> a.description, link |-> a.link,
     id |-> generate_article_id(a)]

\* datetime.isoformat() and datetime.fromisoformat(): a stored timestamp is
\* a string that parses back to the time it was made from, or does not parse.
isoformat(t) == [fmt |-> "iso", t |-> t]
BadTimestamp == [fmt |-> "bad", t |-> 0]
Parses(s) == s.fmt = "iso"
fromisoformat(s) == s.t

\* used_articles.json: absent, unreadable (open or json.load raises), or a
\* JSON object mapping article ids to timestamp strings.
AbsentFile == [kind |-> "absent", data |-> <<>>]
GarbageFile == [kind |-> "garbage", data |-> <<>>]
JsonFile(m) == [kind |-> "json", data |-> m]

Put(m, k, v) == [x \in (DOMAIN m) \cup {k} |-> IF x = k THEN v ELSE m[x]]

\* Every entry of the file can be read back.
Readable(f) ==
    /\ f.kind = "json"
    /\ \A h \in DOMAIN f.data : Parses(f.data[h])

\* A load that would keep a record on the day its window ends.
load_used_articles_keeping_boundary(f, t) ==
    IF f.kind = "absent"
    THEN {}
    ELSE IF f.kind = "garbage"
         THEN {}
         ELSE IF \E h \in DOMAIN f.data : ~Parses(f.data[h])
              THEN {}
              ELSE {h \in DOMAIN f.data : fromisoformat(f.data[h]) >= t - Retention}

\* A load that would skip an unparsable entry instead of giving up the file.
load_used_articles_skipping_bad(f, t) ==
    IF f.kind # "json"
    THEN {}
    ELSE {h \in DOMAIN f.data :
            Parses(f.data[h]) /\ fromisoformat(f.data[h]) > t - Retention}

load_used_articles_result(f, t) ==
    IF f.kind = "absent"
    THEN {}
    ELSE IF f.kind = "garbage"
         THEN {}
         ELSE IF \E h \in DOMAIN f.data : ~Parses(f.data[h])
              THEN {}
              ELSE {h \in DOMAIN f.data : fromisoformat(f.data[h]) > t - Retention}

\* The write of save_used_article succeeds, fails in open() (file untouched)
\* or fails after open() truncated the file.
WriteOutcomes == {"ok", "open_fails", "dump_fails"}

\* A save that would start a fresh store when the file cannot be parsed.
save_used_article_repairing(f, id, t, w) ==
    LET used_articles == IF f.kind = "garbage" THEN Put(<< >>, id, isoformat(t))
                         ELSE Put(f.data, id, isoformat(t))
    IN CASE w = "ok" -> JsonFile(used_articles)
         [] w = "open_fails" -> f
         [] OTHER -> GarbageFile

save_used_article_result(f, id, t, w) ==
    IF f.kind = "garbage"
    THEN f
    ELSE LET used_articles == Put(f.data, id, isoformat(t))
         IN CASE w = "ok" -> JsonFile(used_articles)
              [] w = "open_fails" -> f
              [] OTHER -> GarbageFile

\* A feed: feedparser's entries, or a failure while reading them.
Topics == 1..NumTopics
FeedResults ==
    [ok : {TRUE}, entries : UNION {[1..n -> Articles] : n \in 0..MaxFeed}]
        \cup {[ok |-> FALSE, entries |-> <<>>]}

Take(s, n) == IF Len(s) <= n THEN s ELSE SubSeq(s, 1, n)

\* A fetch that would return every entry, used or not.
get_google_news_rss_unfiltered(feed, num_articles, used_articles) ==
    IF ~feed.ok
    THEN <<>>
    ELSE LET entries == Take(feed.entries, num_articles)
         IN [i \in 1..Len(entries) |-> WithId(entries[i])]

\* get_google_news_rss once the feed is parsed and the used ids are loaded.
get_google_news_rss_result(feed, num_articles, used_articles) ==
    IF ~feed.ok
    THEN <<>>
    ELSE LET entries == Take(feed.entries, num_articles)
             articles == [i \in 1..Len(entries) |-> WithId(entries[i])]
             IsFresh(a) == a.id \notin used_articles
         IN SelectSeq(articles, IsFresh)

\* What an operation returned: its kind ("set", "list", "dict", "None") and
\* the article ids in it.  The order of a returned list is not kept, so
\* random.shuffle leaves the returned value as it is.
NoRet == [kind |-> "none", ids |-> {}]
Returned(kind, list) ==
    [kind |-> kind, ids |-> {list[i].id : i \in 1..Len(list)}]

\* Entries of a feed that get_google_news_rss read and did not return
\* ("Skipping duplicate").
Skipped(feed, num_articles, used_articles) ==
    IF feed.ok
    THEN Len(Take(feed.entries, num_articles))
             - Len(get_google_news_rss_result(feed, num_articles, used_articles))
    ELSE 0

\* The outcomes get_google_news_rss can have for one topic, over every feed:
\* what it returns and how many entries it skipped.
TopicOutcomes(used_articles) ==
    { [ret |-> Returned("list", get_google_news_rss_result(feed, NumArticlesPerTopic, used_articles)),
       skipped |-> Skipped(feed, NumArticlesPerTopic, used_articles)]
      : feed \in FeedResults }

\* all_articles.extend(articles)
Extend(a, b) ==
    [ret |-> [kind |-> "list", ids |-> a.ret.ids \cup b.ret.ids],
     skipped |-> a.skipped + b.skipped]

\* The outcomes of the topics from `topic` on, each topic with the outcomes
\* `outcomes` (the store does not change during a fetch cycle).
RECURSIVE FetchCyclesFrom(_, _)
FetchCyclesFrom(topic, outcomes) ==
    IF topic > NumTopics
    THEN {[ret |-> Returned("list", <<>>), skipped |-> 0]}
    ELSE {Extend(a, b) : a \in outcomes, b \in FetchCyclesFrom(topic + 1, outcomes)}

\* get_fresh_trending_news: the outcomes of one fetch cycle over all topics
\* when load_used_articles returns used_articles.
get_fresh_trending_news_result(used_articles) ==
    FetchCyclesFrom(1, TopicOutcomes(used_articles))

\* A reset that would empty the file instead of removing it.
reset_store_truncating(f) == IF f.kind # "absent" THEN JsonFile(<< >>) ELSE f

\* A reset that would leave the file in place.
reset_store_keeping(f) == f

\* A reset that would remove the file only when it can be read.
reset_store_if_readable(f) == IF f.kind = "json" THEN AbsentFile ELSE f

\* select_fresh_article's reset: os.remove when the file exists.
reset_store(f) == IF f.kind # "absent" THEN AbsentFile ELSE f

\* History: save_used_article ran to its end, so the mark is persisted.
Completed(f0, w) == f0.kind # "garbage" /\ w = "ok"
MarkedAfter(m, f0, w, h, t) == IF Completed(f0, w) THEN Put(m, h, t) ELSE m

\* Accesses to the store file.  load_used_articles and save_used_article
\* open it for reading when os.path.exists; get_google_news_rss loads once,
\* so a fetch cycle loads once per topic; save_used_article opens it for
\* writing unless the read raised; the reset removes it when it exists.
Exists(f) == f.kind # "absent"
LoadReads(f) == IF Exists(f) THEN 1 ELSE 0
FetchReads(f) == NumTopics * LoadReads(f)
SaveMods(f, w) ==
    IF f.kind = "garbage" THEN 0 ELSE IF w = "open_fails" THEN 0 ELSE 1
ResetMods(f, f1) == IF f1 # f THEN 1 ELSE 0

\* Record of an operation: which one, the fetch cycles it ran, what its first
\* cycle found, whether it reset the store, the entries its last cycle
\* skipped, how its save_used_article went, how often it opened the
\* store file for reading and modified it (wrote or removed it), and
\* whether the first cycle of a select_fresh_article filtered an entry out
\* as used.
NoLast ==
    [op |-> "none", cycles |-> 0, first |-> "none", reset |-> FALSE,
     skipped |-> 0, saved |-> "none", reads |-> 0, mods |-> 0, filtered |-> FALSE]
SavedAs(f0, w) == IF Completed(f0, w) THEN "ok" ELSE "failed"

InitialFiles ==
    {AbsentFile, GarbageFile}
        \cup {JsonFile(Put(<<>>, h, BadTimestamp)) : h \in Fingerprints}

DedupInit ==
    /\ file \in InitialFiles
    /\ now = 0
    /\ ret = NoRet
    /\ last = NoLast
    /\ markedAt = <<>>
    /\ selSet = {}

\* Time passes between operations.
Tick ==
    /\ now < MaxTime
    /\ now' = now + 1
    /\ UNCHANGED <<file, ret, last, markedAt, selSet>>
    /\ UNCHANGED notDedup

load_used_articles ==
    /\ LET used == load_used_articles_result(file, now)
       IN ret' = [kind |-> "set", ids |-> used]
    /\ last' = [NoLast EXCEPT !.op = "load", !.reads = LoadReads(file)]
    /\ UNCHANGED <<file, now, markedAt, selSet>>
    /\ UNCHANGED notDedup

save_used_article ==
    /\ \E id \in Fingerprints, w \in WriteOutcomes :
          /\ file' = save_used_article_result(file, id, now, w)
          /\ markedAt' = MarkedAfter(markedAt, file, w, id, now)
          /\ last' = [NoLast EXCEPT !.op = "save", !.saved = SavedAs(file, w),
                                     !.reads = LoadReads(file),
                                     !.mods = SaveMods(file, w)]
    /\ ret' = Returned("None", <<>>)
    /\ UNCHANGED <<now, selSet>>
    /\ UNCHANGED notDedup

get_google_news_rss ==
    /\ \E used \in {load_used_articles_result(file, now)} :
          \E c \in TopicOutcomes(used) :
             /\ ret' = c.ret
             /\ last' = [NoLast EXCEPT !.op = "fetch", !.cycles = 1,
                                        !.first = IF c.ret.ids = {} THEN "empty" ELSE "found",
                                        !.skipped = c.skipped,
                                        !.reads = LoadReads(file)]
    /\ UNCHANGED <<file, now, markedAt, selSet>>
    /\ UNCHANGED notDedup

get_fresh_trending_news ==
    /\ \E used \in {load_used_articles_result(file, now)} :
          \E c \in get_fresh_trending_news_result(used) :
             /\ ret' = c.ret
             /\ last' = [NoLast EXCEPT !.op = "fetch", !.cycles = 1,
                                        !.first = IF c.ret.ids = {} THEN "empty" ELSE "found",
                                        !.skipped = c.skipped,
                                        !.reads = FetchReads(file)]
    /\ UNCHANGED <<file, now, markedAt, selSet>>
    /\ UNCHANGED notDedup

\* random.choice, save_used_article and the return of the selected article.
SelectAndMark(f0, c, cycles, didReset, reads, mods, filtered) ==
    \E id \in c.ret.ids, w \in WriteOutcomes :
       LET base == IF didReset THEN {} ELSE selSet
       IN /\ file' = save_used_article_result(f0, id, now, w)
          /\ ret' = [kind |-> "dict", ids |-> {id}]
          /\ markedAt' = MarkedAfter(markedAt, f0, w, id, now)
          /\ selSet' = IF Completed(f0, w) THEN base \cup {id} ELSE base
          /\ last' = [op |-> "select", cycles |-> cycles,
                      first |-> IF didReset THEN "empty" ELSE "found",
                      reset |-> didReset, skipped |-> c.skipped,
                      saved |-> SavedAs(f0, w),
                      reads |-> reads + LoadReads(f0),
                      mods |-> mods + SaveMods(f0, w),
                      filtered |-> filtered]

\* select_fresh_article: the first fetch cycle found articles; or it found
\* nothing, the store is reset and one more fetch cycle runs.
select_fresh_article ==
    /\ \E first \in {get_fresh_trending_news_result(load_used_articles_result(file, now))} :
          \/ \E c \in first :
                /\ c.ret.ids # {}
                /\ SelectAndMark(file, c, 1, FALSE, FetchReads(file), 0, c.skipped > 0)
          \/ \E c1 \in first :
             /\ c1.ret.ids = {}
             /\ \E f1 \in {reset_store(file)} :
                   \E c \in get_fresh_trending_news_result(load_used_articles_result(f1, now)) :
                      IF c.ret.ids # {}
                      THEN SelectAndMark(f1, c, 2, TRUE,
                                         FetchReads(file) + FetchReads(f1),
                                         ResetMods(file, f1), c1.skipped > 0)
                      ELSE /\ file' = f1
                           /\ ret' = Returned("None", <<>>)
                           /\ markedAt' = markedAt
                           /\ selSet' = {}
                           /\ last' = [op |-> "select", cycles |-> 2, first |-> "empty",
                                       reset |-> TRUE, skipped |-> c.skipped,
                                       saved |-> "none",
                                       reads |-> FetchReads(file) + FetchReads(f1),
                                       mods |-> ResetMods(file, f1),
                                       filtered |-> c1.skipped > 0]
    /\ UNCHANGED now
    /\ UNCHANGED notDedup

DedupNext ==
    \/ Tick
    \/ load_used_articles
    \/ save_used_article
    \/ get_google_news_rss
    \/ get_fresh_trending_news
    \/ select_fresh_article

(***************************************************************************)
(* generate_article_id on its own: calls on article dictionaries carrying  *)
(* all the keys get_google_news_rss gives them, at any time, with any      *)
(* store on disk.                                                          *)
(***************************************************************************)
\* The article dictionaries built by get_google_news_rss: the candidates
\* with every link, source, topic and publication date.
ArticleDicts ==
    { [title |-> a.title, description |-> a.description, link |-> l,
       source |-> src, topic |-> tp, published |-> pub]
      : a \in Articles, l \in {"l1", "l4"}, src \in {"Google News", "BBC"},
        tp \in {"technology", "business"}, pub \in {"Mon", "Tue"} }

\* When a call is made and what the store holds then.
CallContexts ==
    { [at |-> 0, store |-> AbsentFile],
      [at |-> Retention + 1, store |-> GarbageFile] }

NoCall == [called |-> FALSE]
Call(article, t, f) ==
    [called |-> TRUE, article |-> article, at |-> t, store |-> f.kind,
     id |-> generate_article_id(article)]

IdInit ==
    /\ idLast = NoCall
    /\ idPrev = NoCall

\* One call of generate_article_id.
generate_article_id_call ==
    /\ \E article \in ArticleDicts, ctx \in CallContexts :
          idLast' = Call(article, ctx.at, ctx.store)
    /\ idPrev' = idLast
    /\ UNCHANGED notId

IdNext == generate_article_id_call

(***************************************************************************)
(* Caption: CaptionGenerator._format_linkedin_post and the hand-over of    *)
(* the caption to the posting strategies.                                  *)
(***************************************************************************)
\* Config.MAX_CAPTION_LENGTH
MAX_CAPTION_LENGTH == 1300
\* the "50 char buffer" of _format_linkedin_post
TruncationBuffer == 50

\* A text is a sequence of characters; Rep(c, n) is c repeated n times.
Rep(c, n) == [i \in 1..n |-> c]
Ellipsis == <<".", ".", ".">>

\* The three templates: each is fixed text around the title and, after it,
\* the summary; the fixed text (with topic, source and url filled in) is
\* split into what precedes the title, what separates title and summary
\* and what follows the summary; FilledIn is the length of the topic,
\* source and url filled in.
Templates == 1..3
TemplateHead(k) == CASE k = 1 -> 5 [] k = 2 -> 46 [] OTHER -> 24
TemplateTail(k) == CASE k = 1 -> 323 [] k = 2 -> 225 [] OTHER -> 242
FilledIn == 40
selected_template(k, title, summary) ==
    Rep("f", TemplateHead(k)) \o title \o <<"\n", "\n">> \o summary
        \o Rep("f", TemplateTail(k) + FilledIn)

\* str.replace(old, new): every non-overlapping occurrence, left to right.
RECURSIVE Replace(_, _, _)
Replace(text, old, new) ==
    IF Len(old) = 0 \/ Len(text) < Len(old)
    THEN text
    ELSE LET hits == {i \in 1..(Len(text) - Len(old) + 1) :
                         SubSeq(text, i, i + Len(old) - 1) = old}
         IN IF hits = {}
            THEN text
            ELSE LET i == CHOOSE x \in hits : \A y \in hits : x <= y
                 IN SubSeq(text, 1, i - 1) \o new
                        \o Replace(SubSeq(text, i + Len(old), Len(text)), old, new)

\* _format_linkedin_post once random.choice picked template k.
format_linkedin_post(k, title, summary) ==
    LET template == selected_template(k, title, summary)
    IN IF Len(template) > MAX_CAPTION_LENGTH
       THEN LET excess_chars == Len(template) - MAX_CAPTION_LENGTH + TruncationBuffer
            IN IF excess_chars > 0 /\ Len(summary) > excess_chars
               THEN LET cut == SubSeq(summary, 1, Len(summary) - excess_chars)
                                   \o Ellipsis
                    IN Replace(template, cut \o Ellipsis, cut)
               ELSE template
       ELSE template

\* Titles and summaries of the articles: short and long ones, and a summary
\* that holds a run of dots.
MaxTitle == 900
MaxSummary == 980
Titles == {Rep("t", 50), Rep("t", MaxTitle)}
Summaries ==
    {Rep("s", 0), Rep("s", 140), Rep("s", MaxSummary),
     Rep("s", MaxSummary - 150) \o Rep(".", 6) \o Rep("s", 150)}

CaptionInit ==
    /\ caption = None
    /\ handed = << >>

\* CaptionGenerator.create_linkedin_post for an article.
create_linkedin_post ==
    /\ caption = None
    /\ \E k \in Templates, title \in Titles, summary \in Summaries :
          caption' = format_linkedin_post(k, title, summary)
    /\ UNCHANGED handed
    /\ UNCHANGED notCaption

\* auto_post hands its content argument to the next strategy.
hand_to_strategy ==
    /\ caption # None
    /\ Len(handed) < Cardinality(Strategies)
    /\ handed' = Append(handed, caption)
    /\ UNCHANGED caption
    /\ UNCHANGED notCaption

CaptionNext ==
    \/ create_linkedin_post
    \/ hand_to_strategy

(***************************************************************************)
(* Entry points, and APILinkedInBot.run_automation with its fallback file. *)
(***************************************************************************)
MaxApiRuns == 2
MaxClock == 3
\* Ticks of the clock in one second.
TicksPerSecond == 2

\* datetime.now().strftime('%Y%m%d_%H%M%S'): the time to the second.
strftime(t) == t \div TicksPerSecond

\* f"linkedin_post_{timestamp}.txt"
Filename(timestamp) == <<"linkedin_post_", timestamp, ".txt">>

Contents == {"c1", "c2"}

\* A request of api_linkedin_bot.py is sent without a timeout: it answers,
\* raises, or never returns.
NoTimeoutOutcomes == {"answered", "raised", "hung"}

\* The value of `sys.exit(0 if success else 1)`.
ExitCodeOf(ok) == IF ok THEN 0 ELSE 1

\* The entry points other than api_linkedin_bot.py, and their exit codes
\* for a run that succeeded (ok) or failed.  test_telegram_automation.py
\* calls main() without sys.exit; main.py (Telegram) returns 1 when the
\* return code of test_telegram_automation.py is not 0; the schedule
\* subcommand of main.py falls off the end of main().
OtherEntryPoints ==
    {"github_runner", "main_test", "main_api", "main_post", "main_manual",
     "main_generate", "main_summary", "main_open", "main_schedule",
     "test_telegram_automation", "telegram_main"}
test_telegram_automation_exit(ok) == 0
EntryExitCode(e, ok) ==
    CASE e = "test_telegram_automation" -> test_telegram_automation_exit(ok)
      [] e = "telegram_main" ->
            IF test_telegram_automation_exit(ok) = 0 THEN 0 ELSE 1
      [] e = "main_schedule" -> 0
      [] OTHER -> ExitCodeOf(ok)

\* What a source of fetch_tech_news does: it appends n articles and then
\* ends normally, raises, lacks its library (RSS: ImportError) or never
\* returns.  A request that never returns, or a missing library, has
\* appended nothing.
MaxArticles == 2
NewsApiOutcomes ==
    [n : 0..MaxArticles, end : {"ok", "raised"}] \cup {[n |-> 0, end |-> "hung"]}
RssOutcomes ==
    [n : 0..MaxArticles, end : {"ok", "raised"}]
        \cup {[n |-> 0, end |-> "import_error"], [n |-> 0, end |-> "hung"]}

NotFetched == [hung |-> FALSE, articles |-> << >>, consulted |-> << >>]

\* A fetch that would return nothing when both sources gave nothing.
fetch_tech_news_without_fallback(news_api_key, a, b) ==
    LET fromApi == IF news_api_key THEN Rep("NewsAPI", a.n) ELSE << >>
        first == IF news_api_key THEN <<"NewsAPI">> ELSE << >>
    IN IF news_api_key /\ a.end = "hung"
       THEN [hung |-> TRUE, articles |-> << >>, consulted |-> first]
       ELSE IF fromApi # << >>
            THEN [hung |-> FALSE, articles |-> Take(fromApi, 1), consulted |-> first]
            ELSE IF b.end = "hung"
                 THEN [hung |-> TRUE, articles |-> << >>,
                       consulted |-> Append(first, "RSS")]
                 ELSE [hung |-> FALSE, articles |-> Take(Rep("RSS", b.n), 1),
                       consulted |-> Append(first, "RSS")]

\* fetch_tech_news: the articles it returns, each named by its source, and
\* the sources it consulted, in order.
fetch_tech_news_result(news_api_key, a, b) ==
    LET fromApi == IF news_api_key THEN Rep("NewsAPI", a.n) ELSE << >>
        first == IF news_api_key THEN <<"NewsAPI">> ELSE << >>
    IN IF news_api_key /\ a.end = "hung"
       THEN [hung |-> TRUE, articles |-> << >>, consulted |-> first]
       ELSE IF fromApi # << >>
            THEN [hung |-> FALSE, articles |-> Take(fromApi, 1), consulted |-> first]
            ELSE IF b.end = "hung"
                 THEN [hung |-> TRUE, articles |-> << >>,
                       consulted |-> Append(first, "RSS")]
                 ELSE IF b.n > 0
                      THEN [hung |-> FALSE, articles |-> Take(Rep("RSS", b.n), 1),
                            consulted |-> Append(first, "RSS")]
                      ELSE [hung |-> FALSE, articles |-> Take(<<"fallback">>, 1),
                            consulted |-> Append(Append(first, "RSS"), "fallback")]

\* The answers to the requests of post_to_linkedin_api, none of which has a
\* timeout.  Profile lookup: 200 with an 'id', 200 whose body has no 'id' or
\* does not parse, another status, an exception, no answer.
ProfileResponses == {"200", "200_noid", "other", "raised", "hung"}
\* upload_image_to_linkedin returns the asset urn or None (it catches its
\* exceptions), raises, or hangs in one of its requests.
UploadOutcomes == {"urn", "None", "raised", "hung"}
PublishOutcomes == {"201", "other", "raised", "hung"}

NotPosted ==
    [token |-> TRUE, ret |-> "none", requests |-> << >>, profile |-> "none",
     upload |-> "none", publish |-> "none", media |-> FALSE]

\* A post that would give up when the image upload failed.
post_to_linkedin_api_needing_upload(linkedin_access_token, image, profile, upload, publish) ==
    IF ~linkedin_access_token
    THEN [NotPosted EXCEPT !.token = FALSE, !.ret = "False"]
    ELSE IF profile # "200" \/ (image /\ upload # "urn")
         THEN [NotPosted EXCEPT !.ret = IF "hung" \in {profile, upload} THEN "hung" ELSE "False",
                                !.requests = IF profile = "200"
                                             THEN <<"profile", "upload">>
                                             ELSE <<"profile">>,
                                !.profile = profile,
                                !.upload = IF profile = "200" THEN upload ELSE "none"]
         ELSE [NotPosted EXCEPT !.ret = CASE publish = "201" -> "True"
                                          [] publish = "hung" -> "hung"
                                          [] OTHER -> "False",
                                !.requests = IF image
                                             THEN <<"profile", "upload", "publish">>
                                             ELSE <<"profile", "publish">>,
                                !.profile = profile,
                                !.upload = IF image THEN upload ELSE "none",
                                !.publish = publish,
                                !.media = image]

\* post_to_linkedin_api: the requests it sends, in order, the answers it
\* got and what it returns ("hung": it never returns).  `image` says that an
\* image path was given and the file exists.
post_to_linkedin_api_result(linkedin_access_token, image, profile, upload, publish) ==
    IF ~linkedin_access_token
    THEN [NotPosted EXCEPT !.token = FALSE, !.ret = "False"]
    ELSE IF profile # "200"
         THEN [NotPosted EXCEPT !.ret = IF profile = "hung" THEN "hung" ELSE "False",
                                !.requests = <<"profile">>,
                                !.profile = profile]
         ELSE IF image /\ upload = "hung"
              THEN [NotPosted EXCEPT !.ret = "hung",
                                     !.requests = <<"profile", "upload">>,
                                     !.profile = profile,
                                     !.upload = upload]
              ELSE [NotPosted EXCEPT !.ret = CASE publish = "201" -> "True"
                                               [] publish = "hung" -> "hung"
                                               [] OTHER -> "False",
                                     !.requests = IF image
                                                  THEN <<"profile", "upload", "publish">>
                                                  ELSE <<"profile", "publish">>,
                                     !.profile = profile,
                                     !.upload = IF image THEN upload ELSE "none",
                                     !.publish = publish,
                                     !.media = image /\ upload = "urn"]

ApiInit ==
    /\ entry = "none"
    /\ apc = "idle"
    /\ clock = 0
    /\ content = None
    /\ disk = << >>
    /\ savedLog = {}
    /\ console = {}
    /\ success = "none"
    /\ final = "none"
    /\ exit_code = -1
    /\ apiRuns = 0
    /\ fetched = NotFetched
    /\ image_path = None
    /\ posted = NotPosted

ApiTick ==
    /\ clock < MaxClock
    /\ clock' = clock + 1
    /\ UNCHANGED <<entry, apc, content, disk, savedLog, console, success, final,
                   exit_code, apiRuns, fetched, image_path, posted>>
    /\ UNCHANGED notApi

\* api_linkedin_bot.py main(): a process starts and calls run_automation.
api_main ==
    /\ apc \in {"idle", "exited"}
    /\ apiRuns < MaxApiRuns
    /\ apiRuns' = apiRuns + 1
    /\ entry' = "api_linkedin_bot"
    /\ apc' = "fetch"
    /\ content' = None
    /\ console' = {}
    /\ success' = "none"
    /\ final' = "none"
    /\ exit_code' = -1
    /\ fetched' = NotFetched
    /\ image_path' = None
    /\ posted' = NotPosted
    /\ UNCHANGED <<clock, disk, savedLog>>
    /\ UNCHANGED notApi

\* run_automation returns False after printing a diagnostic.
ReturnFalse(message) ==
    /\ apc' = "returned"
    /\ success' = "False"
    /\ final' = "failed"
    /\ console' = console \cup {message}

\* Step 1: fetch_tech_news catches every exception and falls back to a
\* built-in article, so it returns one article unless a request hangs.
fetch_tech_news ==
    /\ apc = "fetch"
    /\ \E news_api_key \in BOOLEAN, a \in NewsApiOutcomes, b \in RssOutcomes :
          LET r == fetch_tech_news_result(news_api_key, a, b)
          IN /\ fetched' = r
             /\ IF r.hung
                THEN apc' = "hung" /\ console' = console
                ELSE apc' = "generate" /\ console' = console \cup {"title"}
    /\ UNCHANGED <<entry, clock, content, disk, savedLog, success, final,
                   exit_code, apiRuns, image_path, posted>>
    /\ UNCHANGED notApi

\* Step 2: generate_content_with_api returns a content, returns an empty
\* one, raises (caught by run_automation) or hangs in a request.
generate_content_with_api ==
    /\ apc = "generate"
    /\ \E o \in Contents \cup {"empty", "raised", "hung"} :
          CASE o \in Contents ->
                  /\ content' = o
                  /\ apc' = "image"
                  /\ console' = console \cup {"length"}
                  /\ UNCHANGED <<success, final>>
            [] o = "empty" ->
                  /\ ReturnFalse("Content generation failed")
                  /\ UNCHANGED content
            [] o = "raised" ->
                  /\ ReturnFalse("Automation error")
                  /\ UNCHANGED content
            [] OTHER ->
                  /\ apc' = "hung"
                  /\ UNCHANGED <<content, console, success, final>>
    /\ UNCHANGED <<entry, clock, disk, savedLog, exit_code, apiRuns, fetched, image_path, posted>>
    /\ UNCHANGED notApi

\* Step 3: generate_image_with_api returns the path of the file it wrote or
\* None (it catches every exception), or hangs in its request.
generate_image_with_api ==
    /\ apc = "image"
    /\ \E o \in {"path", None, "hung"} :
          IF o = "hung"
          THEN apc' = "hung" /\ image_path' = image_path
          ELSE apc' = "post" /\ image_path' = o
    /\ UNCHANGED <<entry, clock, content, disk, savedLog, console, success,
                   final, exit_code, apiRuns, fetched, posted>>
    /\ UNCHANGED notApi

\* Step 4: post_to_linkedin_api; run_automation saves the content when it
\* returned False.
post_to_linkedin_api ==
    /\ apc = "post"
    /\ \E linkedin_access_token \in BOOLEAN, exists \in BOOLEAN,
          profile \in ProfileResponses, upload \in UploadOutcomes,
          publish \in PublishOutcomes :
          LET r == post_to_linkedin_api_result(linkedin_access_token,
                       image_path # None /\ exists, profile, upload, publish)
          IN /\ posted' = r
             /\ CASE r.ret = "True" ->
                       /\ apc' = "returned"
                       /\ success' = "True"
                       /\ final' = "posted"
                       /\ console' = console \cup {"Successfully posted"}
                  [] r.ret = "False" ->
                       /\ apc' = "save"
                       /\ console' = console \cup {"Failed to post"}
                       /\ UNCHANGED <<success, final>>
                  [] OTHER ->
                       /\ apc' = "hung"
                       /\ UNCHANGED <<console, success, final>>
    /\ UNCHANGED <<entry, clock, content, disk, savedLog, exit_code, apiRuns,
                   fetched, image_path>>
    /\ UNCHANGED notApi

\* Step 5: the content is written to linkedin_post_{timestamp}.txt, opened
\* with mode 'w'; a failure of open() is caught by run_automation.
save_for_manual_posting ==
    /\ apc = "save"
    /\ \E w \in {"ok", "open_fails"} :
          IF w = "ok"
          THEN LET filename == Filename(strftime(clock))
               IN /\ disk' = Put(disk, filename, content)
                  /\ savedLog' = savedLog \cup {[name |-> filename, content |-> content]}
                  /\ apc' = "returned"
                  /\ success' = "True"
                  /\ final' = "saved"
                  /\ console' = console \cup {"Saving content", "Content saved"}
          ELSE /\ apc' = "returned"
               /\ success' = "False"
               /\ final' = "failed"
               /\ console' = console \cup {"Saving content", "Automation error"}
               /\ UNCHANGED <<disk, savedLog>>
    /\ UNCHANGED <<entry, clock, content, exit_code, apiRuns, fetched, image_path, posted>>
    /\ UNCHANGED notApi

\* main() after run_automation: the execution log is written (an uncaught
\* failure ends the process with code 1), then sys.exit(0 if success else 1).
api_main_exit ==
    /\ apc = "returned"
    /\ \E log \in {"ok", "fails"} :
          exit_code' = IF log = "ok" THEN ExitCodeOf(success = "True") ELSE 1
    /\ apc' = "exited"
    /\ UNCHANGED <<entry, clock, content, disk, savedLog, console, success,
                   final, apiRuns, fetched, image_path, posted>>
    /\ UNCHANGED notApi

\* A run of one of the other entry points, succeeding or failing.
other_entry_point ==
    /\ apc \in {"idle", "exited"}
    /\ apiRuns < MaxApiRuns
    /\ apiRuns' = apiRuns + 1
    /\ \E e \in OtherEntryPoints, ok \in BOOLEAN :
          /\ entry' = e
          /\ success' = B(ok)
          /\ exit_code' = EntryExitCode(e, ok)
    /\ apc' = "exited"
    /\ content' = None
    /\ console' = {}
    /\ final' = "none"
    /\ fetched' = NotFetched
    /\ image_path' = None
    /\ posted' = NotPosted
    /\ UNCHANGED <<clock, disk, savedLog>>
    /\ UNCHANGED notApi

ApiNext ==
    \/ ApiTick
    \/ api_main
    \/ fetch_tech_news
    \/ generate_content_with_api
    \/ generate_image_with_api
    \/ post_to_linkedin_api
    \/ save_for_manual_posting
    \/ api_main_exit
    \/ other_entry_point

(***************************************************************************)
(* Overlapping invocations of select_fresh_article on one store file: each *)
(* file access of an invocation is a step of its own, and nothing orders   *)
(* the steps of different invocations.                                      *)
(***************************************************************************)
NumProcs == 2
Procs == 1..NumProcs

\* A save whose write would merge its mark into the file as it is then.
save_write_merging(cur, snapshot, id, t, w) ==
    IF snapshot.kind = "garbage"
    THEN cur
    ELSE CASE w = "ok" ->
                 JsonFile(Put(IF cur.kind = "json" THEN cur.data ELSE << >>,
                              id, isoformat(t)))
           [] w = "open_fails" -> cur
           [] OTHER -> GarbageFile

\* save_used_article from its write on: snapshot is what its read returned,
\* cur the file at the time of the write.
save_write(cur, snapshot, id, t, w) ==
    IF snapshot.kind = "garbage"
    THEN cur
    ELSE CASE w = "ok" -> JsonFile(Put(snapshot.data, id, isoformat(t)))
           [] w = "open_fails" -> cur
           [] OTHER -> GarbageFile

ConcInit ==
    /\ cfile = AbsentFile
    /\ cpc = [p \in Procs |-> "fetch"]
    /\ cpick = [p \in Procs |-> None]
    /\ cread = [p \in Procs |-> AbsentFile]
    /\ creadAt = [p \in Procs |-> 0]
    /\ cwrote = << >>

\* A fetch cycle of invocation p: the store is loaded and the feeds are
\* filtered; random.choice picks one of the fresh articles.
conc_fetch(p) ==
    /\ cpc[p] \in {"fetch", "refetch"}
    /\ \E c \in get_fresh_trending_news_result(load_used_articles_result(cfile, now)) :
          IF c.ret.ids # {}
          THEN \E id \in c.ret.ids :
                  /\ cpick' = [cpick EXCEPT ![p] = id]
                  /\ cpc' = [cpc EXCEPT ![p] = "save_read"]
          ELSE /\ cpc' = [cpc EXCEPT ![p] = IF cpc[p] = "fetch" THEN "reset" ELSE "done"]
               /\ UNCHANGED cpick
    /\ UNCHANGED <<cfile, cread, creadAt, cwrote>>
    /\ UNCHANGED notConc

\* The reset of invocation p after an empty first cycle.
conc_reset(p) ==
    /\ cpc[p] = "reset"
    /\ cfile' = reset_store(cfile)
    /\ cpc' = [cpc EXCEPT ![p] = "refetch"]
    /\ UNCHANGED <<cpick, cread, creadAt, cwrote>>
    /\ UNCHANGED notConc

\* save_used_article of invocation p, first half: the file is read.
conc_save_read(p) ==
    /\ cpc[p] = "save_read"
    /\ cread' = [cread EXCEPT ![p] = cfile]
    /\ creadAt' = [creadAt EXCEPT ![p] = Len(cwrote)]
    /\ cpc' = [cpc EXCEPT ![p] = "save_write"]
    /\ UNCHANGED <<cfile, cpick, cwrote>>
    /\ UNCHANGED notConc

\* save_used_article of invocation p, second half: the file is written.
conc_save_write(p) ==
    /\ cpc[p] = "save_write"
    /\ \E w \in WriteOutcomes :
          /\ cfile' = save_write(cfile, cread[p], cpick[p], now, w)
          /\ cwrote' = IF Completed(cread[p], w) THEN Append(cwrote, p) ELSE cwrote
    /\ cpc' = [cpc EXCEPT ![p] = "done"]
    /\ UNCHANGED <<cpick, cread, creadAt>>
    /\ UNCHANGED notConc

ConcNext ==
    \E p \in Procs :
        \/ conc_fetch(p)
        \/ conc_reset(p)
        \/ conc_save_read(p)
        \/ conc_save_write(p)

(***************************************************************************)
(* NewsImageGenerator.generate_image_huggingface: one step per request to  *)
(* the image API.                                                          *)
(***************************************************************************)
max_retries == 3
retry_delay == 25

\* What one request to the image API produces: image data of more than 1000
\* bytes, shorter data, a JSON body announcing that the model loads, any
\* other JSON body (one that does not parse, or whose fields make the
\* handling raise inside the inner try), a status, or an exception of
\* requests.post (timeout after 90 s, connection error).
HfResponses ==
    {"image", "invalid_image", "loading", "json_error", "503", "401", "other",
     "raised"}
ImageWrites == {"ok", "fails"}
LogoOutcomes == {"no_logo", "added", "failed"}

\* add_logo_overlay returns the path it was given or None; the caller
\* returns the path in both cases.
add_logo_overlay(logo) == IF logo = "failed" THEN "None" ELSE "path"

\* An attempt that treats 401 like any other error status.
after_response_retrying_401(attempt, resp, w, logo) ==
    CASE resp = "image" ->
            IF w = "ok"
            THEN [next |-> "return", result |-> "path", written |-> TRUE, sleep |-> 0]
            ELSE [next |-> "return", result |-> "None", written |-> FALSE, sleep |-> 0]
      [] resp = "invalid_image" ->
            [next |-> "continue", result |-> "pending", written |-> FALSE, sleep |-> 0]
      [] resp = "loading" ->
            [next |-> "continue", result |-> "pending", written |-> FALSE,
             sleep |-> retry_delay + 15]
      [] resp = "json_error" ->
            [next |-> "break", result |-> "None", written |-> FALSE, sleep |-> 0]
      [] resp = "503" ->
            [next |-> "continue", result |-> "pending", written |-> FALSE,
             sleep |-> retry_delay + 15]
      [] resp \in {"other", "401"} ->
            [next |-> "continue", result |-> "pending", written |-> FALSE,
             sleep |-> IF attempt < max_retries - 1 THEN retry_delay ELSE 0]
      [] OTHER ->
            [next |-> "return", result |-> "None", written |-> FALSE, sleep |-> 0]

\* The body of the retry loop for one response: whether the loop goes on,
\* is left, or the function returns; what is returned; whether the file was
\* written; and how long the attempt sleeps.
after_response(attempt, resp, w, logo) ==
    CASE resp = "image" ->
            IF w = "ok"
            THEN [next |-> "return",
                  result |-> IF add_logo_overlay(logo) # "None"
                             THEN add_logo_overlay(logo) ELSE "path",
                  written |-> TRUE, sleep |-> 0]
            ELSE [next |-> "return", result |-> "None", written |-> FALSE, sleep |-> 0]
      [] resp = "invalid_image" ->
            [next |-> "continue", result |-> "pending", written |-> FALSE, sleep |-> 0]
      [] resp = "loading" ->
            [next |-> "continue", result |-> "pending", written |-> FALSE,
             sleep |-> retry_delay + 15]
      [] resp = "json_error" ->
            [next |-> "break", result |-> "None", written |-> FALSE, sleep |-> 0]
      [] resp = "503" ->
            [next |-> "continue", result |-> "pending", written |-> FALSE,
             sleep |-> retry_delay + 15]
      [] resp = "401" ->
            [next |-> "return", result |-> "None", written |-> FALSE, sleep |-> 0]
      [] resp = "other" ->
            [next |-> "continue", result |-> "pending", written |-> FALSE,
             sleep |-> IF attempt < max_retries - 1 THEN retry_delay ELSE 0]
      [] OTHER ->
            [next |-> "return", result |-> "None", written |-> FALSE, sleep |-> 0]

ImgInit ==
    /\ ipc = "idle"
    /\ hf_token = FALSE
    /\ ilog = << >>
    /\ islept = 0
    /\ iwritten = FALSE
    /\ iresult = "pending"

\* The call starts: without a token it returns None before any request.
generate_image_huggingface ==
    /\ ipc = "idle"
    /\ \E t \in BOOLEAN :
          /\ hf_token' = t
          /\ IF t
             THEN ipc' = "request" /\ iresult' = "pending"
             ELSE ipc' = "done" /\ iresult' = "None"
    /\ UNCHANGED <<ilog, islept, iwritten>>
    /\ UNCHANGED notImg

\* One pass of the retry loop: the request, and what the loop does with its
\* response.  When the loop runs out of attempts the function returns None.
hf_request ==
    /\ ipc = "request"
    /\ Len(ilog) < max_retries
    /\ \E resp \in HfResponses, w \in ImageWrites, logo \in LogoOutcomes :
          LET attempt == Len(ilog)
              r == after_response(attempt, resp, w, logo)
              over == r.next = "break" \/ attempt + 1 = max_retries
          IN /\ ilog' = Append(ilog, resp)
             /\ islept' = islept + r.sleep
             /\ iwritten' = r.written
             /\ IF r.next = "return"
                THEN ipc' = "done" /\ iresult' = r.result
                ELSE IF over
                     THEN ipc' = "done" /\ iresult' = "None"
                     ELSE ipc' = "request" /\ iresult' = "pending"
    /\ UNCHANGED hf_token
    /\ UNCHANGED notImg

ImgNext == generate_image_huggingface \/ hf_request

(***************************************************************************)
(* The public methods of one AutoLinkedInPoster called directly, in any    *)
(* order: get_user_info and the three API strategies.  The object has a    *)
(* token, so get_user_info does not raise ValueError.                      *)
(***************************************************************************)
MaxCalls == 3

DirectInit == calls = << >>

LookupLogOf(rs, n) ==
    [i \in 1..n |-> [endpoint |-> endpoints_to_try[i], kind |-> rs[i].kind]]

\* get_user_info called by the user of the class, whatever is cached.
get_user_info_call ==
    /\ Len(calls) < MaxCalls
    /\ \E rs \in [Endpoints -> LookupResponses] :
          LET info == get_user_info(user_id, user_urn, rs)
          IN /\ user_id' = info.id
             /\ user_urn' = info.urn
             /\ lookups' = info.calls
             /\ lookupLog' = LookupLogOf(rs, info.calls)
    /\ calls' = Append(calls, "get_user_info")
    /\ UNCHANGED <<pc, token, invoked, reported, status, sent, accepted, waited,
                   browser, author, consent, chain, records, result, runs>>
    /\ UNCHANGED notChainOrDirect

\* create_ugc_post_v1 called directly: it looks the identity up only when no
\* urn is cached, then sends its request.
create_ugc_post_v1_call ==
    /\ Len(calls) < MaxCalls
    /\ \E rs \in [Endpoints -> LookupResponses] :
          LET info == IF user_urn = None
                      THEN get_user_info(user_id, user_urn, rs)
                      ELSE [id |-> user_id, urn |-> user_urn, calls |-> 0]
          IN /\ user_id' = info.id
             /\ user_urn' = info.urn
             /\ lookups' = info.calls
             /\ lookupLog' = LookupLogOf(rs, info.calls)
             /\ author' = IF info.urn = None THEN PlaceholderUrn ELSE info.urn
    /\ calls' = Append(calls, "create_ugc_post_v1")
    /\ UNCHANGED <<pc, token, invoked, reported, status, sent, accepted, waited,
                   browser, consent, chain, records, result, runs>>
    /\ UNCHANGED notChainOrDirect

\* create_simple_share and create_ugc_post_v2 neither read nor write the
\* cached identity.
strategy_without_identity ==
    /\ Len(calls) < MaxCalls
    /\ \E name \in {"create_simple_share", "create_ugc_post_v2"} :
          calls' = Append(calls, name)
    /\ UNCHANGED chainVars
    /\ UNCHANGED notChainOrDirect

DirectNext ==
    \/ get_user_info_call
    \/ create_ugc_post_v1_call
    \/ strategy_without_identity

(***************************************************************************)
(* The Telegram relay: test_telegram_automation.main, which runs           *)
(* test_telegram_bot and then send_linkedin_content.                       *)
(***************************************************************************)
\* A request to the Telegram API, sent without a timeout: HTTP 200 with
\* ok true, 200 with ok false, another status, an exception (also a body
\* that lacks a key), or no answer.
MaxRelayRuns == 2
TelegramAnswers == {"ok", "not_ok", "http_error", "raised", "hung"}
Req(name, outcome) == [req |-> name, outcome |-> outcome]

\* test_telegram_bot: the requests it sends and what it returns.
test_telegram_bot_result(credentials, getMe, message) ==
    IF ~credentials
    THEN [ret |-> "False", log |-> << >>]
    ELSE IF getMe # "ok"
         THEN [ret |-> IF getMe = "hung" THEN "hung" ELSE "False",
               log |-> <<Req("getMe", getMe)>>]
         ELSE [ret |-> CASE message = "ok" -> "True"
                         [] message = "hung" -> "hung"
                         [] OTHER -> "False",
               log |-> <<Req("getMe", getMe), Req("testMessage", message)>>]

\* The first half of send_linkedin_content.  News: articles, none (an
\* exception is raised on purpose) or an exception; image: a path, None or
\* an exception of generate_news_image.  Any exception leads to the
\* built-in text without image.
NewsOutcomes == {"articles", "empty", "raised"}
ImageOutcomes == {"path", "None", "raised"}
NoGen == [news |-> "none", image |-> "none"]
generate_linkedin_content(news, image) ==
    IF news = "articles" /\ image # "raised"
    THEN [text |-> "article", image_info |-> IF image = "path" THEN "path" ELSE None,
          gen |-> [news |-> news, image |-> image]]
    ELSE [text |-> "builtin", image_info |-> None,
          gen |-> [news |-> news, image |-> IF news = "articles" THEN image ELSE "none"]]

\* send_image_to_telegram: open() fails before the request, or the request
\* is sent; every failure is printed and swallowed.
PhotoOutcomes == TelegramAnswers \cup {"open_fails"}

\* A send that would report failure when the photo could not be sent.
send_linkedin_content_requiring_photo(info, answer, exists, photo) ==
    IF answer # "ok"
    THEN [ret |-> IF answer = "hung" THEN "hung" ELSE "False",
          log |-> <<Req("sendMessage", answer)>>]
    ELSE IF info # None /\ exists
         THEN IF photo = "open_fails"
              THEN [ret |-> "False", log |-> <<Req("sendMessage", answer)>>]
              ELSE [ret |-> CASE photo = "ok" -> "True"
                              [] photo = "hung" -> "hung"
                              [] OTHER -> "False",
                    log |-> <<Req("sendMessage", answer), Req("sendPhoto", photo)>>]
         ELSE [ret |-> "True", log |-> <<Req("sendMessage", answer)>>]

\* The second half of send_linkedin_content: the text message, then the
\* photo when the message was acknowledged and the image file exists.
send_linkedin_content_result(info, answer, exists, photo) ==
    IF answer # "ok"
    THEN [ret |-> IF answer = "hung" THEN "hung" ELSE "False",
          log |-> <<Req("sendMessage", answer)>>]
    ELSE IF info # None /\ exists
         THEN IF photo = "open_fails"
              THEN [ret |-> "True", log |-> <<Req("sendMessage", answer)>>]
              ELSE [ret |-> IF photo = "hung" THEN "hung" ELSE "True",
                    log |-> <<Req("sendMessage", answer), Req("sendPhoto", photo)>>]
         ELSE [ret |-> "True", log |-> <<Req("sendMessage", answer)>>]

RelayInit ==
    /\ tpc = "idle"
    /\ tlog = << >>
    /\ tgen = NoGen
    /\ ttext = "none"
    /\ image_info = None
    /\ treport = "none"
    /\ truns = 0
    /\ tdelivered = 0

\* The script is started (by hand, or by main.py on its schedule).
relay_main ==
    /\ tpc \in {"idle", "done"}
    /\ truns < MaxRelayRuns
    /\ truns' = truns + 1
    /\ tpc' = "test"
    /\ tlog' = << >>
    /\ tgen' = NoGen
    /\ ttext' = "none"
    /\ image_info' = None
    /\ treport' = "none"
    /\ UNCHANGED tdelivered
    /\ UNCHANGED notRelay

\* main calls test_telegram_bot and goes on only when it returned True.
test_telegram_bot ==
    /\ tpc = "test"
    /\ \E credentials \in BOOLEAN, getMe \in TelegramAnswers, message \in TelegramAnswers :
          LET r == test_telegram_bot_result(credentials, getMe, message)
          IN /\ tlog' = r.log
             /\ tpc' = CASE r.ret = "True" -> "generate"
                         [] r.ret = "hung" -> "hung"
                         [] OTHER -> "done"
             /\ treport' = IF r.ret = "False" THEN "setup needs to be fixed" ELSE treport
    /\ UNCHANGED <<tgen, ttext, image_info, truns, tdelivered>>
    /\ UNCHANGED notRelay

\* send_linkedin_content builds its text.
generate_content ==
    /\ tpc = "generate"
    /\ \E news \in NewsOutcomes, image \in ImageOutcomes :
          LET g == generate_linkedin_content(news, image)
          IN /\ ttext' = g.text
             /\ image_info' = g.image_info
             /\ tgen' = g.gen
    /\ tpc' = "send"
    /\ UNCHANGED <<tlog, treport, truns, tdelivered>>
    /\ UNCHANGED notRelay

\* send_linkedin_content sends the text and the photo; main prints the
\* outcome.
send_linkedin_content ==
    /\ tpc = "send"
    /\ \E answer \in TelegramAnswers, exists \in BOOLEAN, photo \in PhotoOutcomes :
          LET r == send_linkedin_content_result(image_info, answer, exists, photo)
          IN /\ tlog' = tlog \o r.log
             /\ tpc' = IF r.ret = "hung" THEN "hung" ELSE "done"
             /\ treport' = CASE r.ret = "True" -> "SUCCESS"
                             [] r.ret = "False" -> "delivery failed"
                             [] OTHER -> treport
             /\ tdelivered' = tdelivered + (IF answer = "ok" THEN 1 ELSE 0)
    /\ UNCHANGED <<tgen, ttext, image_info, truns>>
    /\ UNCHANGED notRelay

RelayNext ==
    \/ relay_main
    \/ test_telegram_bot
    \/ generate_content
    \/ send_linkedin_content

(***************************************************************************)
(* Specifications.                                                         *)
(***************************************************************************)
Init == ChainInit /\ DedupInit /\ CaptionInit /\ ApiInit /\ IdInit /\ ConcInit /\ ImgInit /\ DirectInit /\ RelayInit /\ file = AbsentFile
Next == ChainNext
Spec == Init /\ [][Next]_vars

InitDedup == DedupInit /\ ChainInit /\ CaptionInit /\ ApiInit /\ IdInit /\ ConcInit /\ ImgInit /\ DirectInit /\ RelayInit /\ token = TRUE
NextDedup == DedupNext
SpecDedup == InitDedup /\ [][NextDedup]_vars

InitCaption ==
    CaptionInit /\ ChainInit /\ DedupInit /\ ApiInit /\ IdInit /\ ConcInit /\ ImgInit /\ DirectInit /\ RelayInit /\ token = TRUE /\ file = AbsentFile
NextCaption == CaptionNext
SpecCaption == InitCaption /\ [][NextCaption]_vars

InitApi ==
    ApiInit /\ ChainInit /\ DedupInit /\ CaptionInit /\ IdInit /\ ConcInit /\ ImgInit /\ DirectInit /\ RelayInit /\ token = TRUE
        /\ file = AbsentFile
NextApi == ApiNext
SpecApi == InitApi /\ [][NextApi]_vars

InitId ==
    IdInit /\ ConcInit /\ ImgInit /\ DirectInit /\ RelayInit /\ ChainInit /\ DedupInit /\ CaptionInit /\ ApiInit /\ token = TRUE
        /\ file = AbsentFile
NextId == IdNext
SpecId == InitId /\ [][NextId]_vars

InitConc ==
    ConcInit /\ ImgInit /\ DirectInit /\ RelayInit /\ ChainInit /\ DedupInit /\ CaptionInit /\ ApiInit /\ IdInit /\ token = TRUE
        /\ file = AbsentFile
NextConc == ConcNext
SpecConc == InitConc /\ [][NextConc]_vars

InitImg ==
    ImgInit /\ DirectInit /\ RelayInit /\ ChainInit /\ DedupInit /\ CaptionInit /\ ApiInit /\ IdInit /\ ConcInit
    /\ token = TRUE /\ file = AbsentFile
NextImg == ImgNext
SpecImg == InitImg /\ [][NextImg]_vars

InitDirect ==
    DirectInit /\ RelayInit /\ ChainInit /\ DedupInit /\ CaptionInit /\ ApiInit /\ IdInit /\ ConcInit
    /\ ImgInit /\ token = TRUE /\ file = AbsentFile
NextDirect == DirectNext
SpecDirect == InitDirect /\ [][NextDirect]_vars

InitRelay ==
    RelayInit /\ ChainInit /\ DedupInit /\ CaptionInit /\ ApiInit /\ IdInit /\ ConcInit
    /\ ImgInit /\ DirectInit /\ token = TRUE /\ file = AbsentFile
NextRelay == RelayNext
SpecRelay == InitRelay /\ [][NextRelay]_vars

(***************************************************************************)
(* Properties of the posting chain (checked under Spec).                   *)
(***************************************************************************)

\* C1: once a strategy has reported success, auto_post has returned True and
\* no later strategy was invoked in that invocation; when strategy 1
\* succeeds, strategies 2, 3 and 4 record zero invocations.
C1_HaltsOnSuccess ==
    \A k \in Strategies :
        reported[k] = "True" =>
            /\ pc = "done"
            /\ chain = "True"
            /\ \A j \in Strategies : j > k => invoked[j] = 0

\* Strategy 1 succeeded and auto_post returned.
C1_ShareSucceeded ==
    /\ reported[1] = "True"
    /\ invoked[1] = 1
    /\ pc = "done"

\* C2: at most one post per invocation: after a publish request of the
\* invocation was accepted by the platform no further publish request is
\* sent, so the platform never receives two accepted posts from one
\* invocation.
C2_AtMostOnePost == accepted <= 1

\* C3: when every posting strategy failed in a run, auto_post returned False
\* and the caller produced exactly one manual-fallback record.  The runs in
\* which the fallback write itself failed (auto_post returned False and
\* post_to_linkedin still returned False) are left out.
C3_ExactlyOneFallbackRecord ==
    ( /\ pc = "done"
      /\ \A k \in 1..3 : reported[k] = "False"
      /\ reported[4] # "True"
      /\ ~(chain = "False" /\ result = "False") )
        => (chain = "False" /\ records = 1)

\* C4: auto_post never ends by propagating an exception.
C4_NeverRaises == chain # "raised"

\* C5: strategy k+1 is invoked exactly when strategies 1..k were all invoked
\* and all failed, whatever the failure; and with strategy 1 answered 403 and
\* strategy 2 answered 201 the result is success via strategy 2, strategies
\* 3 and 4 never being called.
C5_ProceedsInOrder ==
    /\ pc \notin {"s1", "s2"} =>
          (invoked[2] > 0 <=> reported[1] = "False")
    /\ pc \notin {"s1", "s2", "s3"} =>
          (invoked[3] > 0 <=> (reported[1] = "False" /\ reported[2] = "False"))
    /\ (status[1] = 403 /\ status[2] = 201) =>
          /\ reported[2] = "True"
          /\ chain = "True"
          /\ invoked[3] = 0
          /\ invoked[4] = 0

\* C16 as stated: in the identity resolution of strategy 2 the first
\* endpoint that returns a success status is the last one called, and it
\* populates the cached identity.
C16_FirstSuccessStatusPopulates ==
    [][(pc = "s2" /\ user_urn = None) =>
          \A i \in 1..Len(lookupLog') :
              lookupLog'[i].kind \in {"id", "noid", "badjson"} =>
                  /\ i = Len(lookupLog')
                  /\ user_urn' # None]_vars

\* C16, amended: strategy 2 looks the identity up only when none is cached,
\* calling /people/~, /people/~:(id,firstName,lastName), /me in this order;
\* the first 200 whose body parses ends the lookup, and the identity is
\* cached exactly when that body holds an 'id'; a 200 whose body does not
\* parse is passed over like a failure.  In every case strategy 2 sends its
\* publish request, with the cached identity as author or else the
\* placeholder.
C16_IdentityResolution ==
    [][pc = "s2" =>
          LET log == lookupLog'
              n == Len(lookupLog')
          IN /\ n <= 3
             /\ \A i \in 1..n : log[i].endpoint = endpoints_to_try[i]
             /\ \A i \in 1..(n - 1) : log[i].kind \notin {"id", "noid"}
             /\ (0 < n /\ n < 3) => log[n].kind \in {"id", "noid"}
             /\ lookups' = n
             /\ user_urn # None => (n = 0 /\ user_urn' = user_urn)
             /\ user_urn = None =>
                   /\ n > 0
                   /\ user_urn' # None <=> log[n].kind = "id"
             /\ sent' = sent + 1
             /\ invoked'[2] = 1
             /\ author' = IF user_urn' = None THEN PlaceholderUrn ELSE user_urn']_vars

\* C16, witness: strategy 2 sent its request with the placeholder author
\* after a 200 with an unparsable body, a failure and a 200 without 'id'.
C16_PlaceholderAfterLookups ==
    /\ invoked[2] = 1
    /\ Len(lookupLog) = 3
    /\ lookupLog[1].kind = "badjson"
    /\ lookupLog[2].kind = "fail"
    /\ lookupLog[3].kind = "noid"
    /\ user_urn = None
    /\ author = PlaceholderUrn
    /\ status[2] = 201

\* C17: the browser strategy is invoked only after strategies 1-3 all
\* reported failure and the operator answered 'y'; when the prompt ended
\* without consent, or the browser strategy failed, auto_post returned
\* False; and no fallback record is written before the caller's own
\* fallback step.
C17_BrowserGatedByConsent ==
    /\ invoked[4] > 0 =>
          /\ \A k \in 1..3 : invoked[k] = 1 /\ reported[k] = "False"
          /\ Normalised(consent) = "y"
    /\ (consent # "none" /\ Normalised(consent) # "y") => chain = "False"
    /\ reported[4] = "False" => chain = "False"
    /\ pc # "done" => records = 0

C28_NoTokenNoStrategy ==
    ~token =>
        /\ \A k \in Strategies : invoked[k] = 0 /\ reported[k] = "none"
        /\ sent = 0
        /\ lookups = 0
        /\ consent = "none"
        /\ browser = "none"
        /\ chain \in {"none", "False"}
        /\ pc \in {"idle", "fallback", "done"}

\* auto_post was called without a token and returned False; the caller went
\* on to its manual fallback.
C28_ReturnedFalseAtOnce ==
    /\ ~token
    /\ chain = "False"
    /\ pc = "done"
    /\ sent = 0
    /\ records = 1

(***************************************************************************)
(* Properties of the deduplication store (checked under SpecDedup).        *)
(***************************************************************************)

\* C6 as stated: a fingerprint whose latest save_used_article happened at
\* time t is reported as used by load_used_articles at every t' with
\* t <= t' < t + 7 days and as not used at every t' >= t + 7 days.
C6_RetentionWindowAlways ==
    \A h \in DOMAIN markedAt :
        h \in load_used_articles_result(file, now) <=> now < markedAt[h] + Retention

\* C6, amended: the same, for a fingerprint whose latest save was written and
\* whose record is still in a readable store (the file was not removed by
\* select_fresh_article's reset nor corrupted since); the record holds the
\* time of the latest save, so that re-marking restarts the window.
C6_RetentionWindow ==
    \A h \in DOMAIN markedAt :
        (Readable(file) /\ h \in DOMAIN file.data) =>
            /\ file.data[h] = isoformat(markedAt[h])
            /\ h \in load_used_articles_result(file, now)
                  <=> now < markedAt[h] + Retention

\* One fingerprint is at the end of its window and no longer used, another,
\* marked later, is still used.
C6_BoundaryReached ==
    /\ Readable(file)
    /\ \E h, g \in DOMAIN markedAt :
          /\ h \in DOMAIN file.data
          /\ g \in DOMAIN file.data
          /\ now = markedAt[h] + Retention
          /\ h \notin load_used_articles_result(file, now)
          /\ markedAt[g] > markedAt[h]
          /\ g \in load_used_articles_result(file, now)

\* C7 as stated: after select_fresh_article marked h, a later fetch within
\* the retention window and with no reset in between never returns (and
\* select_fresh_article never selects) an article whose id is h.
C7_MarkedIsFilteredOutAlways ==
    [][ (last'.op \in {"fetch", "select"} /\ now' = now /\ ~last'.reset)
          => \A h \in selSet :
                now < markedAt[h] + Retention => h \notin ret'.ids ]_vars

\* C7, amended: the same, provided the store file is readable when the
\* fetch loads it.
C7_MarkedIsFilteredOut ==
    [][ (last'.op \in {"fetch", "select"} /\ now' = now /\ ~last'.reset
            /\ Readable(file))
          => \A h \in selSet :
                now < markedAt[h] + Retention => h \notin ret'.ids ]_vars

\* A fetch has skipped an entry whose id select_fresh_article marked.
C7_DuplicateSkipped ==
    /\ last.op = "fetch"
    /\ last.skipped > 0
    /\ Readable(file)
    /\ \E h \in selSet : now < markedAt[h] + Retention /\ h \notin ret.ids

\* C8: after a load_used_articles or a save_used_article the persisted store
\* holds no record older than the retention window.
C8_PurgedOnLoad ==
    [][ (last'.op \in {"load", "save"} /\ now' = now /\ file'.kind = "json")
          => \A h \in DOMAIN file'.data :
                Parses(file'.data[h])
                    => fromisoformat(file'.data[h]) >= now' - Retention ]_vars

C10_FailsOpen ==
    /\ ~Readable(file) => load_used_articles_result(file, now) = {}
    /\ (last.op = "load" /\ ~Readable(file)) => ret = [kind |-> "set", ids |-> {}]
    /\ (last.op = "fetch" /\ ~Readable(file)) => last.skipped = 0
    /\ (last.op = "save" /\ last.saved = "failed") => ret.kind = "None"
    /\ (last.op = "select" /\ last.saved = "failed") =>
          (ret.kind = "dict" /\ Cardinality(ret.ids) = 1)

\* select_fresh_article returned an article although the write of its mark
\* failed and left the file corrupt.
C10_ReturnedDespiteFailedWrite ==
    /\ last.op = "select"
    /\ last.saved = "failed"
    /\ ret.kind = "dict"
    /\ file.kind = "garbage"
    /\ markedAt # << >>

C27_SaveAddsExactlyTheId ==
    [][ (last'.op = "save" /\ now' = now) =>
          /\ file.kind = "garbage" => file' = file
          /\ file.kind # "garbage" =>
                \E id \in Fingerprints :
                   file' = JsonFile(Put(file.data, id, isoformat(now))) ]_vars

\* C27, amended: save_used_article leaves an unparsable file unchanged and
\* reports nothing, so load_used_articles still returns the empty set; with
\* an absent or valid file and a write that succeeds it adds or overwrites
\* exactly the given id, stamped with the current time, and leaves every
\* other record unchanged; a write that fails leaves the file as it was
\* (open failed) or unparsable (the dump failed after the truncation).
C27_SaveOnUnparsableOrValid ==
    [][ (last'.op = "save" /\ now' = now) =>
          /\ ret'.kind = "None"
          /\ file.kind = "garbage" =>
                /\ file' = file
                /\ last'.saved = "failed"
                /\ last'.mods = 0
                /\ load_used_articles_result(file', now') = {}
          /\ (file.kind # "garbage" /\ last'.saved = "ok") =>
                \E id \in Fingerprints :
                   /\ file' = JsonFile(Put(file.data, id, isoformat(now)))
                   /\ \A h \in DOMAIN file.data \ {id} : file'.data[h] = file.data[h]
                   /\ DOMAIN file'.data = DOMAIN file.data \cup {id}
          /\ (file.kind # "garbage" /\ last'.saved = "failed") =>
                (file' = file \/ file' = GarbageFile) ]_vars

\* save_used_article read an unparsable file and wrote nothing: the file is
\* still unparsable and no mark was recorded.
C27_UnparsableLeftAsIs ==
    /\ last.op = "save"
    /\ last.saved = "failed"
    /\ last.reads = 1
    /\ last.mods = 0
    /\ file = GarbageFile
    /\ markedAt = << >>

(***************************************************************************)
(* Properties of the caption (checked under SpecCaption).                  *)
(***************************************************************************)

\* C11: every text handed to a posting strategy has at most
\* MAX_CAPTION_LENGTH characters, for every template and every summary
\* length, and every strategy is handed the same text.
C11_WithinPlatformLimit ==
    /\ caption # None => Len(caption) <= MAX_CAPTION_LENGTH
    /\ \A i \in 1..Len(handed) :
          /\ Len(handed[i]) <= MAX_CAPTION_LENGTH
          /\ handed[i] = handed[1]

(***************************************************************************)
(* Properties of the runs and entry points (checked under SpecApi).        *)
(***************************************************************************)

\* C12: the manual-fallback store never overwrites a record: after any
\* sequence of saves every record that was written is still on disk under
\* its file name with its original content, so two saves in the same second
\* with different content have left two distinct files.
C12_NeverOverwrites ==
    /\ \A r \in savedLog : r.name \in DOMAIN disk /\ disk[r.name] = r.content
    /\ Cardinality(DOMAIN disk) = Cardinality(savedLog)

\* C13: when writing the fallback record failed, run_automation returned
\* False, the process exits with a code other than 0, and the content that
\* could not be saved has been written to the console.
C13_FailedWriteEscalated ==
    (/\ entry = "api_linkedin_bot"
     /\ apc \in {"returned", "exited"}
     /\ "Saving content" \in console
     /\ "Content saved" \notin console)
    => /\ success = "False"
       /\ apc = "exited" => exit_code # 0
       /\ content \in console

\* C14: every run of run_automation terminates (it is never left waiting in
\* a call that does not return), and a run that ended is in exactly one of
\* the final states posted (the posting succeeded, nothing was saved), saved
\* for manual posting (the posting failed and the record is on disk) and
\* failed with a diagnostic on the console.
C14_TerminatesInOneOfThree ==
    /\ apc # "hung"
    /\ (entry = "api_linkedin_bot" /\ apc \in {"returned", "exited"}) =>
          /\ final \in {"posted", "saved", "failed"}
          /\ final = "posted" =>
                /\ success = "True"
                /\ "Successfully posted" \in console
                /\ "Content saved" \notin console
          /\ final = "saved" =>
                /\ success = "True"
                /\ "Failed to post" \in console
                /\ \E r \in savedLog : r.content = content /\ r.name \in DOMAIN disk
          /\ final = "failed" =>
                /\ success = "False"
                /\ console \cap {"Content generation failed", "Automation error"} # {}

\* C15: a process that exited has exit code 0 when its run succeeded and
\* exit code 1 when its run failed, for every entry point.
C15_ExitCodeFollowsOutcome ==
    apc = "exited" =>
        /\ success = "True" => exit_code = 0
        /\ success = "False" => exit_code = 1

\* C22: run_automation writes a fallback record only after its posting was
\* attempted and failed, never in a run whose posting reported success, and
\* a record, once written, keeps its content.
C22_RecordOnlyAfterExhaustion ==
    /\ "Content saved" \in console =>
          /\ "Failed to post" \in console
          /\ "Successfully posted" \notin console
    /\ final = "posted" => "Saving content" \notin console
    /\ \A r \in savedLog : r.name \in DOMAIN disk /\ disk[r.name] = r.content

\* C23: whenever fetch_tech_news returns, it returns exactly one article; the
\* sources it consulted are in the order NewsAPI, RSS, built-in fallback; and
\* the article comes from the last source consulted, so a lower source was
\* consulted only because the higher ones gave no article.
C23_ExactlyOneArticle ==
    (fetched # NotFetched /\ ~fetched.hung) =>
        /\ Len(fetched.articles) = 1
        /\ fetched.consulted \in {<<"NewsAPI">>, <<"RSS">>, <<"NewsAPI", "RSS">>,
                                  <<"RSS", "fallback">>,
                                  <<"NewsAPI", "RSS", "fallback">>}
        /\ fetched.articles[1] = fetched.consulted[Len(fetched.consulted)]

\* Both sources were consulted and gave nothing: the built-in article is
\* returned.
C23_FellBackToBuiltIn ==
    /\ fetched.consulted = <<"NewsAPI", "RSS", "fallback">>
    /\ fetched.articles = <<"fallback">>
    /\ apc = "generate"

\* C29 as stated: the publish request is sent only after the profile lookup
\* answered 200; post_to_linkedin_api returns True exactly when the publish
\* request answered 201 and never raises; a failed or raising upload does
\* not keep the publish request from being sent; and a run of
\* run_automation has written a fallback file exactly when
\* post_to_linkedin_api returned False.
C29_FileExactlyWhenFalse ==
    /\ posted.publish # "none" => posted.profile = "200"
    /\ posted.ret = "True" <=> posted.publish = "201"
    /\ posted.ret \in {"none", "True", "False", "hung"}
    /\ posted.upload \in {"None", "raised"} => posted.publish # "none"
    /\ apc \in {"returned", "exited"} /\ entry = "api_linkedin_bot" =>
          (final = "saved" <=> posted.ret = "False")

\* C29, amended: as above, except that run_automation starts the fallback
\* write exactly when post_to_linkedin_api returned False, and the file is
\* written unless opening it fails, in which case run_automation returns
\* False with no file.  Without a token no request is sent at all.
C29_PublishAfterProfile ==
    /\ ~posted.token => (posted.requests = << >> /\ posted.ret = "False")
    /\ posted.publish # "none" =>
          /\ posted.profile = "200"
          /\ posted.requests[1] = "profile"
          /\ posted.requests[Len(posted.requests)] = "publish"
    /\ posted.ret = "True" <=> posted.publish = "201"
    /\ posted.ret \in {"none", "True", "False", "hung"}
    /\ posted.upload \in {"None", "raised"} => posted.publish # "none"
    /\ posted.media => posted.upload = "urn"
    /\ apc \in {"returned", "exited"} /\ entry = "api_linkedin_bot" =>
          /\ "Saving content" \in console <=> posted.ret = "False"
          /\ final = "saved" => posted.ret = "False"
          /\ posted.ret = "False" => final \in {"saved", "failed"}
          /\ (posted.ret = "False" /\ final = "failed") =>
                ("Content saved" \notin console /\ success = "False")

\* The upload raised, the publish request was sent all the same and was
\* refused, and run_automation saved the content.
C29_PublishedDespiteUpload ==
    /\ posted.requests = <<"profile", "upload", "publish">>
    /\ posted.upload = "raised"
    /\ posted.publish = "other"
    /\ posted.ret = "False"
    /\ final = "saved"
    /\ apc = "returned"

(***************************************************************************)
(* Properties of the article fingerprint (checked under SpecId).           *)
(***************************************************************************)

C21_OverlapLosesMark ==
    \A p \in Procs, q \in Procs :
        (/\ p # q
         /\ cpc[p] = "done"
         /\ cpc[q] = "done"
         /\ Len(cwrote) >= 2
         /\ cwrote[Len(cwrote) - 1] = p
         /\ cwrote[Len(cwrote)] = q
         /\ creadAt[q] < Len(cwrote) - 1
         /\ cpick[p] # cpick[q])
        => (cpick[p] \in DOMAIN cfile.data => cpick[p] \in DOMAIN cread[q].data)

\* C21, witness: both invocations finished and each completed its write,
\* yet the store holds the mark of the second only.
C21_LostUpdate ==
    /\ \A p \in Procs : cpc[p] = "done"
    /\ Len(cwrote) = 2
    /\ cwrote[1] # cwrote[2]
    /\ cpick[cwrote[1]] # cpick[cwrote[2]]
    /\ cfile.kind = "json"
    /\ cpick[cwrote[1]] \notin DOMAIN cfile.data
    /\ cpick[cwrote[2]] \in DOMAIN cfile.data

(***************************************************************************)
(* Properties of image generation (checked under SpecImg).                 *)
(***************************************************************************)
\* C24: a call of generate_image_huggingface sends at most max_retries
\* requests and is over once it sent that many; without a token it sends
\* none; a 401 is the last response of the call and makes it return None at
\* once; the call ends with the path of a file it wrote or with None, and no
\* exception leaves it.
C24_BoundedAttempts ==
    /\ Len(ilog) <= max_retries
    /\ Len(ilog) = max_retries => ipc = "done"
    /\ (ipc # "idle" /\ ~hf_token) => (ilog = << >> /\ ipc = "done" /\ iresult = "None")
    /\ \A i \in 1..Len(ilog) :
          ilog[i] = "401" => (i = Len(ilog) /\ ipc = "done" /\ iresult = "None")
    /\ iresult \in {"pending", "path", "None"}
    /\ ipc = "done" <=> iresult # "pending"
    /\ iresult = "path" <=> iwritten

\* Three attempts answered by 503, a loading model and short image data: the
\* call gave up after the third.
C24_GaveUpAfterThree ==
    /\ ilog = <<"503", "loading", "invalid_image">>
    /\ ipc = "done"
    /\ iresult = "None"

(***************************************************************************)
(* Properties of the cached identity (checked under SpecDirect).           *)
(***************************************************************************)
\* C26: after any sequence of get_user_info and strategy calls the cached
\* urn is None or is 'urn:li:person:' followed by the cached id.
C26_CachedIdentityAgrees ==
    user_urn = None \/ (user_id # None /\ user_urn = Urn(user_id))

(***************************************************************************)
(* Properties of the Telegram relay (checked under SpecRelay).             *)
(***************************************************************************)
\* C30 as stated: the content is sent only after test_telegram_bot
\* succeeded; the photo only after the text was acknowledged and with an
\* image; a failed photo send leaves the reported success; and every
\* failure of news or image generation puts the built-in text into the
\* message.
C30_FailureGivesBuiltInText ==
    /\ \A i \in 1..Len(tlog) :
          tlog[i].req = "sendMessage" =>
              (i = 3 /\ tlog[1] = Req("getMe", "ok") /\ tlog[2] = Req("testMessage", "ok"))
    /\ \A i \in 1..Len(tlog) :
          tlog[i].req = "sendPhoto" =>
              (i = 4 /\ tlog[3] = Req("sendMessage", "ok") /\ image_info = "path")
    /\ (tpc = "done" /\ Len(tlog) >= 3) =>
          (treport = "SUCCESS" <=> tlog[3].outcome = "ok")
    /\ tpc \in {"send", "done"} /\ tgen # NoGen =>
          (ttext = "builtin"
              <=> (tgen.news # "articles" \/ tgen.image \in {"None", "raised"}))

\* C30, amended: as above, except that the built-in text is used when news
\* generation raised or found no article or when image generation raised;
\* an image generation that returns None keeps the article text and only
\* leaves out the photo.  In every case the text message is sent.
C30_RelayOrder ==
    /\ \A i \in 1..Len(tlog) :
          tlog[i].req = "sendMessage" =>
              (i = 3 /\ tlog[1] = Req("getMe", "ok") /\ tlog[2] = Req("testMessage", "ok"))
    /\ \A i \in 1..Len(tlog) :
          tlog[i].req = "sendPhoto" =>
              (i = 4 /\ tlog[3] = Req("sendMessage", "ok") /\ image_info = "path")
    /\ (tpc = "done" /\ Len(tlog) >= 3) =>
          (treport = "SUCCESS" <=> tlog[3].outcome = "ok")
    /\ tpc \in {"send", "done"} /\ tgen # NoGen =>
          /\ ttext = "builtin" <=> (tgen.news # "articles" \/ tgen.image = "raised")
          /\ ttext = "article" <=> (tgen.news = "articles" /\ tgen.image \in {"path", "None"})
          /\ image_info = "path" <=> (tgen.news = "articles" /\ tgen.image = "path")
    /\ (tpc = "done" /\ tgen # NoGen) =>
          (Len(tlog) >= 3 /\ tlog[3].req = "sendMessage")
    /\ tdelivered <= truns

\* The text was acknowledged, the photo was refused, and main reported
\* success.
C30_SuccessDespitePhoto ==
    /\ tpc = "done"
    /\ tdelivered = 1
    /\ Len(tlog) = 4
    /\ tlog[4] = Req("sendPhoto", "http_error")
    /\ treport = "SUCCESS"
    /\ ttext = "article"

====
